---- MODULE Spec2Model ----
(***************************************************************************)
(* Model of docs/plantuml/generate_docs.py: the batch run of main() over   *)
(* the .puml files of PUML_DIR, with the external renderer and the         *)
(* filesystem as the environment.                                          *)
(*                                                                         *)
(* A diagram name is the sequence of the segments of its file stem, so     *)
(* that the substring tests of generate_markdown_doc can be computed: a    *)
(* keyword occurs in a name iff it is one of the lower-cased segments.     *)
(* A source text is a sequence of characters over {"title", " ", "\n",     *)
(* "x"}: the keyword of the title directive, a blank, a line break and any *)
(* other character.                                                        *)
(***************************************************************************)
EXTENDS Integers, Sequences, FiniteSets, TLC

VARIABLES
    dir,             \* names of the *.puml files present in PUML_DIR
    imgDir,          \* OUTPUT_IMG_DIR exists
    mdDir,           \* OUTPUT_MD_DIR exists
    images,          \* names n with <n>.png present in OUTPUT_IMG_DIR
    pages,           \* the <name>.md files written, as records
    index,           \* content of OUTPUT_MD_DIR/README.md, or NoFile
    pc,              \* position in main()
    puml_files,      \* main: sorted list of discovered sources
    i,               \* main: 1-based position of the for loop
    puml_content,    \* main: text read from the current source
    metadata,        \* main: resolved metadata of the current source
    generated_docs,  \* main: list of <<diagram_name, title>>
    call,            \* the generate_png_from_puml call of this iteration
    renderLog,       \* history: names passed to generate_png_from_puml
    status,          \* history: how far each source got in this run
    rendered,        \* history: names whose render returned a PNG path
    raised,          \* exception that left main(), or "none"
    summary          \* <<count>> once the summary is printed, <<>> before

vars == <<dir, imgDir, mdDir, images, pages, index, pc, puml_files, i,
          puml_content, metadata, generated_docs, call, renderLog, status,
          rendered, raised, summary>>

(* ------------------------------ bounds -------------------------------- *)

MaxFiles == 2      \* sources in PUML_DIR
MaxTextLen == 3    \* characters of a source text (single-source runs)

(* ------------------------------ names --------------------------------- *)

ClassFlow == <<"Class", "-", "Flow">>
AlphaArchitecture == <<"alpha", "-", "architecture">>
BetaSequence == <<"beta", "-", "sequence">>
GammaUnrelated == <<"gamma", "-", "unrelated">>
BackendArchitecture == <<"senzu", "-", "ai", "-", "backend", "-", "architecture">>
ClassDiagram == <<"senzu", "-", "ai", "-", "class", "-", "diagram">>
SequenceDiagram == <<"senzu", "-", "ai", "-", "sequence", "-", "diagram">>
DeploymentDiagram == <<"senzu", "-", "ai", "-", "deployment", "-", "diagram">>
DatabaseSchema == <<"senzu", "-", "ai", "-", "database", "-", "schema">>
ServiceInterfaces == <<"senzu", "-", "ai", "-", "service", "-", "interfaces">>
PredictionFlowDetailed ==
    <<"senzu", "-", "ai", "-", "prediction", "-", "flow", "-", "detailed">>
ModelDeploymentFlow ==
    <<"senzu", "-", "ai", "-", "model", "-", "deployment", "-", "flow">>
IngestionSequence == <<"senzu", "-", "ai", "-", "ingestion", "-", "sequence">>
FeaturePipeline == <<"senzu", "-", "ai", "-", "feature", "-", "pipeline">>
DataIngestionWorkflow ==
    <<"senzu", "-", "ai", "-", "data", "-", "ingestion", "-", "work", "flow">>

\* The file stems a run may find in PUML_DIR, in the order of Python's
\* string comparison (upper case before lower case).
NameOrder ==
    <<ClassFlow, AlphaArchitecture, BetaSequence, GammaUnrelated,
      BackendArchitecture, ClassDiagram>>

Names == {NameOrder[k] : k \in 1..Len(NameOrder)}

SortKey(name) == CHOOSE k \in 1..Len(NameOrder) : NameOrder[k] = name

\* str.lower() on the segments of a name.
Lower(seg) ==
    CASE seg = "Class" -> "class"
      [] seg = "Flow" -> "flow"
      [] OTHER -> seg

\* `keyword in diagram_name.lower()`
Contains(name, keyword) == \E k \in 1..Len(name) : Lower(name[k]) = keyword

(* ------------------------- DIAGRAM_DESCRIPTIONS ----------------------- *)

\* A title or a description is a sequence of pieces of text; the long
\* descriptions of the table are one piece each.
Entry(title, description) ==
    [title |-> <<title>>, description |-> <<description>>]

DIAGRAM_DESCRIPTIONS ==
    (BackendArchitecture :> Entry("Backend Architecture", "desc:backend-architecture"))
    @@ (ClassDiagram :> Entry("Domain Model", "desc:class-diagram"))
    @@ (SequenceDiagram :> Entry("Prediction Request Flow", "desc:sequence-diagram"))
    @@ (DeploymentDiagram :> Entry("Deployment Architecture", "desc:deployment-diagram"))
    @@ (DatabaseSchema :> Entry("Database Schema (ER Diagram)", "desc:database-schema"))
    @@ (ServiceInterfaces :> Entry("Service Interface Definitions", "desc:service-interfaces"))
    @@ (PredictionFlowDetailed :>
            Entry("Detailed Prediction Request Flow", "desc:prediction-flow-detailed"))
    @@ (ModelDeploymentFlow :>
            Entry("Model Training & Deployment Flow", "desc:model-deployment-flow"))
    @@ (IngestionSequence :>
            Entry("Data Ingestion Sequence (Scheduled Job)", "desc:ingestion-sequence"))
    @@ (FeaturePipeline :> Entry("Feature Engineering Pipeline", "desc:feature-pipeline"))
    @@ (DataIngestionWorkflow :>
            Entry("Data Ingestion Workflow", "desc:data-ingestion-workflow"))

(* ----------------------- extract_title_from_puml ---------------------- *)

Chars == {"title", " ", "\n", "x"}

IsSpace(c) == c \in {" ", "\n"}

\* Number of characters `\s+` can take after the keyword at position p.
SpaceRun(text, p) ==
    LET Run == {k \in 0..(Len(text) - p) :
                    \A j \in 1..k : IsSpace(text[p + j])}
    IN  CHOOSE k \in Run : \A m \in Run : m <= k

\* Positions at which group 1 of `title\s+(.+)` can start for the keyword
\* at p: after at least one character of the run, on a character that `.`
\* accepts (any but a line break).
GroupStarts(text, p) ==
    {q \in (p + 2)..(p + 1 + SpaceRun(text, p)) :
        q <= Len(text) /\ text[q] # "\n"}

MatchesAt(text, p) == text[p] = "title" /\ GroupStarts(text, p) # {}

\* `\s+` is greedy: group 1 starts as late as it can.
GroupStart(text, p) ==
    CHOOSE q \in GroupStarts(text, p) : \A r \in GroupStarts(text, p) : r <= q

\* `.+` is greedy: group 1 runs to the end of its line.
GroupEnd(text, q) ==
    LET Ends == {e \in q..Len(text) : \A j \in q..e : text[j] # "\n"}
    IN  CHOOSE e \in Ends : \A m \in Ends : m <= e

RECURSIVE LStrip(_)
LStrip(s) == IF s # <<>> /\ IsSpace(Head(s)) THEN LStrip(Tail(s)) ELSE s

RECURSIVE RStrip(_)
RStrip(s) ==
    IF s # <<>> /\ IsSpace(s[Len(s)]) THEN RStrip(SubSeq(s, 1, Len(s) - 1)) ELSE s

\* str.strip()
Strip(s) == RStrip(LStrip(s))

extract_title_from_puml(puml_content_) ==
    LET Starts == {p \in 1..Len(puml_content_) : MatchesAt(puml_content_, p)}
    IN  IF Starts # {}
        THEN LET p == CHOOSE p \in Starts : \A r \in Starts : p <= r
                 q == GroupStart(puml_content_, p)
             IN  Strip(SubSeq(puml_content_, q, GroupEnd(puml_content_, q)))
        ELSE <<"Untitled Diagram">>

\* Lines 495-498 with the table consulted for the description only.
ResolveMetadataExtractedTitle(diagram_name, extracted_title) ==
    IF diagram_name \in DOMAIN DIAGRAM_DESCRIPTIONS
    THEN [title |-> extracted_title,
          description |-> DIAGRAM_DESCRIPTIONS[diagram_name].description]
    ELSE [title |-> extracted_title,
          description |-> <<"Documentation for ">> \o extracted_title \o <<".">>]

\* main, lines 495-498: DIAGRAM_DESCRIPTIONS.get(diagram_name, {...})
ResolveMetadata(diagram_name, extracted_title) ==
    IF diagram_name \in DOMAIN DIAGRAM_DESCRIPTIONS
    THEN DIAGRAM_DESCRIPTIONS[diagram_name]
    ELSE [title |-> extracted_title,
          description |-> <<"Documentation for ">> \o extracted_title \o <<".">>]

(* ----------------------- generate_png_from_puml ----------------------- *)

ExitCodes == {0, 1}
Stderrs == {"", "Error line 3 in file"}

\* Lines 311-320 with the two tests in the other order.
PngOutcomeFileFirst(puml_file, returncode, stderr, png_exists) ==
    IF ~png_exists
    THEN [kind |-> "FileNotFoundError",
          msg |-> <<"Expected PNG file not created: ", puml_file>>]
    ELSE IF returncode # 0
    THEN [kind |-> "RuntimeError",
          msg |-> <<"PlantUML conversion failed: ", stderr>>]
    ELSE [kind |-> "ok", msg |-> <<puml_file, ".png">>]

\* Lines 311-320: what the call does once subprocess.run has returned.
PngOutcome(puml_file, returncode, stderr, png_exists) ==
    IF returncode # 0
    THEN [kind |-> "RuntimeError",
          msg |-> <<"PlantUML conversion failed: ", stderr>>]
    ELSE IF ~png_exists
    THEN [kind |-> "FileNotFoundError",
          msg |-> <<"Expected PNG file not created: ", puml_file>>]
    ELSE [kind |-> "ok", msg |-> <<puml_file, ".png">>]

\* mkdir (line 305) or the launch of the renderer (line 309) raised.
OsError == [kind |-> "OSError", msg |-> <<>>]

\* A call record: the source, the completed renderer process (<<>> when it
\* was not started), whether <stem>.png exists after the call, the outcome.
NoCall == [name |-> <<>>, proc |-> <<>>, png_exists |-> FALSE,
           outcome |-> OsError]

(* ------------------------ generate_markdown_doc ----------------------- *)

Link(title, target) == [title |-> title, target |-> target]

ArchitectureLinks ==
    <<Link("Domain Model", ClassDiagram),
      Link("Deployment Architecture", DeploymentDiagram),
      Link("Database Schema", DatabaseSchema)>>

FlowLinks ==
    <<Link("Backend Architecture", BackendArchitecture),
      Link("Service Interfaces", ServiceInterfaces)>>

ClassLinks ==
    <<Link("Database Schema", DatabaseSchema),
      Link("Service Interfaces", ServiceInterfaces)>>

\* Lines 360-370 with the test of "class" ahead of that of "sequence"/"flow".
RelatedLinksClassFirst(diagram_name) ==
    IF Contains(diagram_name, "architecture") THEN ArchitectureLinks
    ELSE IF Contains(diagram_name, "class") THEN ClassLinks
    ELSE IF Contains(diagram_name, "sequence") \/ Contains(diagram_name, "flow")
    THEN FlowLinks
    ELSE <<>>

\* Lines 360-370.
RelatedLinks(diagram_name) ==
    IF Contains(diagram_name, "architecture") THEN ArchitectureLinks
    ELSE IF Contains(diagram_name, "sequence") \/ Contains(diagram_name, "flow")
    THEN FlowLinks
    ELSE IF Contains(diagram_name, "class") THEN ClassLinks
    ELSE <<>>

\* Lines 346-385: the text written to <diagram_name>.md.
MarkdownDoc(diagram_name, png_path, title, description) ==
    [name |-> diagram_name,
     title |-> title,
     description |-> Strip(description),
     image |-> <<"../images/", png_path, ".png">>,
     related |-> RelatedLinks(diagram_name),
     source |-> <<"../puml/", diagram_name, ".puml">>,
     navigation |-> "./README.md"]

(* --------------------------- generate_index --------------------------- *)

NoFile == [links |-> <<"no file">>]

INDEX_LINKS ==
    <<Link("Backend Architecture", BackendArchitecture),
      Link("Deployment Architecture", DeploymentDiagram),
      Link("Domain Model", ClassDiagram),
      Link("Database Schema", DatabaseSchema),
      Link("Service Interfaces", ServiceInterfaces),
      Link("Prediction Request Flow", SequenceDiagram),
      Link("Detailed Prediction Flow", PredictionFlowDetailed),
      Link("Data Ingestion Sequence", IngestionSequence),
      Link("Data Ingestion Workflow", DataIngestionWorkflow),
      Link("Feature Engineering Pipeline", FeaturePipeline),
      Link("Model Training & Deployment", ModelDeploymentFlow)>>

\* An index whose links are built from its argument.
generate_index_from_list(md_files) ==
    [links |-> [k \in 1..Len(md_files) |->
                    Link(md_files[k][2], md_files[k][1])]]

\* Lines 402-461: the text written to README.md.
generate_index(md_files) == [links |-> INDEX_LINKS]

(* -------------------------------- main -------------------------------- *)

NoMetadata == [title |-> <<"unset">>, description |-> <<"unset">>]

\* Texts of at most n characters.
TextsUpTo(n) == UNION {[1..k -> Chars] : k \in 0..n}

\* Texts the sources of a run with several sources hold: without a title
\* directive, with one, and with one followed by blanks only.
SampleTexts ==
    {<<"x", "\n", "x">>,
     <<"title", " ", "x", " ", "title", "\n", "x">>,
     <<"x", "\n", "title", " ", " ", "\n">>}

Texts == IF Cardinality(dir) = 1 THEN TextsUpTo(MaxTextLen) ELSE SampleTexts

\* Line 475: sorted(PUML_DIR.glob("*.puml"))
RECURSIVE sorted(_)
sorted(S) ==
    IF S = {} THEN <<>>
    ELSE LET least == CHOOSE n \in S : \A m \in S : SortKey(n) <= SortKey(m)
         IN  <<least>> \o sorted(S \ {least})

\* A `break` in place of the `continue` of line 523.
AfterErrorBreak(k) == Len(puml_files) + 1

\* Line 523: `continue` after a caught exception of iteration k.
AfterError(k) == k + 1

\* Line 486: the position of main once the for loop is at k.
LoopPc(k) == IF k <= Len(puml_files) THEN "read" ELSE "index"

\* The pair of line 517 with its components exchanged.
AppendDocSwapped(docs, diagram_name, title) ==
    Append(docs, <<title, diagram_name>>)

\* Line 517
AppendDoc(docs, diagram_name, title) == Append(docs, <<diagram_name, title>>)

Init ==
    /\ dir \in {S \in SUBSET Names : Cardinality(S) <= MaxFiles}
    /\ imgDir \in BOOLEAN
    /\ mdDir \in BOOLEAN
    /\ images \in (IF imgDir THEN {{}, dir} ELSE {{}})
    /\ pages = {}
    /\ index = NoFile
    /\ pc = "start"
    /\ puml_files = <<>>
    /\ i = 0
    /\ puml_content = <<>>
    /\ metadata = NoMetadata
    /\ generated_docs = <<>>
    /\ call = NoCall
    /\ renderLog = <<>>
    /\ status = [n \in dir |-> "pending"]
    /\ rendered = {}
    /\ raised = "none"
    /\ summary = <<>>

\* Lines 477-479 without the `return`: main falls through to the index.
AfterNoSourcesFallThrough == "index"

\* Line 479: `return` when no source was discovered.
AfterNoSources == "returned_early"

\* Lines 475-484: discovery, and the early return on an empty directory.
Discover ==
    /\ pc = "start"
    /\ puml_files' = sorted(dir)
    /\ IF puml_files' = <<>>
       THEN pc' = AfterNoSources /\ i' = i
       ELSE pc' = "read" /\ i' = 1
    /\ generated_docs' = <<>>
    /\ UNCHANGED <<dir, imgDir, mdDir, images, pages, index, puml_content,
                   metadata, call, renderLog, status, rendered, raised,
                   summary>>

\* Lines 487-498: read the source and resolve its metadata.
ReadSource ==
    /\ pc = "read"
    /\ \E text \in Texts :
        /\ puml_content' = text
        /\ metadata' = ResolveMetadata(puml_files[i], extract_title_from_puml(text))
    /\ status' = [status EXCEPT ![puml_files[i]] = "read"]
    /\ call' = NoCall
    /\ pc' = "render"
    /\ UNCHANGED <<dir, imgDir, mdDir, images, pages, index, puml_files, i,
                   generated_docs, renderLog, rendered, raised, summary>>

\* Line 491, outside the try block: read_text raises (unreadable file,
\* undecodable bytes) and the exception leaves main.
ReadSourceRaises ==
    /\ pc = "read"
    /\ status' = [status EXCEPT ![puml_files[i]] = "read_failed"]
    /\ raised' = "read_text"
    /\ pc' = "raised"
    /\ UNCHANGED <<dir, imgDir, mdDir, images, pages, index, puml_files, i,
                   puml_content, metadata, generated_docs, call, renderLog,
                   rendered, summary>>

\* The iteration ends in the except block (lines 520-523).
Caught(newStatus) ==
    /\ status' = [status EXCEPT ![puml_files[i]] = newStatus]
    /\ i' = AfterError(i)
    /\ pc' = LoopPc(i')

\* Lines 503 and 305: generate_png_from_puml cannot create OUTPUT_IMG_DIR.
RenderMkdirRaises ==
    /\ pc = "render"
    /\ ~imgDir
    /\ call' = [NoCall EXCEPT !.name = puml_files[i],
                             !.png_exists = puml_files[i] \in images]
    /\ renderLog' = Append(renderLog, puml_files[i])
    /\ Caught("render_failed")
    /\ UNCHANGED <<dir, imgDir, mdDir, images, pages, index, puml_files,
                   puml_content, metadata, generated_docs, rendered, raised,
                   summary>>

\* Lines 503 and 305-309: the renderer cannot be started.
RenderLaunchRaises ==
    /\ pc = "render"
    /\ imgDir' = TRUE
    /\ call' = [NoCall EXCEPT !.name = puml_files[i],
                             !.png_exists = puml_files[i] \in images]
    /\ renderLog' = Append(renderLog, puml_files[i])
    /\ Caught("render_failed")
    /\ UNCHANGED <<dir, mdDir, images, pages, index, puml_files,
                   puml_content, metadata, generated_docs, rendered, raised,
                   summary>>

\* Lines 503 and 305-320: the renderer runs and exits.
Render ==
    /\ pc = "render"
    /\ \E returncode \in ExitCodes, stderr \in Stderrs, creates \in BOOLEAN :
        LET name == puml_files[i]
            after == IF creates THEN images \cup {name} ELSE images
            outcome == PngOutcome(name, returncode, stderr, name \in after)
        IN  /\ imgDir' = TRUE
            /\ images' = after
            /\ call' = [name |-> name,
                        proc |-> <<[returncode |-> returncode,
                                    stderr |-> stderr]>>,
                        png_exists |-> name \in after, outcome |-> outcome]
            /\ renderLog' = Append(renderLog, name)
            /\ IF outcome.kind = "ok"
               THEN /\ status' = [status EXCEPT ![name] = "rendered"]
                    /\ rendered' = rendered \cup {name}
                    /\ pc' = "compose"
                    /\ i' = i
               ELSE Caught("render_failed") /\ rendered' = rendered
    /\ UNCHANGED <<dir, mdDir, pages, index, puml_files, puml_content,
                   metadata, generated_docs, raised, summary>>

\* Lines 508-518: the page is written and recorded.
Compose ==
    /\ pc = "compose"
    /\ mdDir' = TRUE
    /\ pages' = {p \in pages : p.name # puml_files[i]} \cup
                {MarkdownDoc(puml_files[i], call.name,
                             metadata.title, metadata.description)}
    /\ generated_docs' = AppendDoc(generated_docs, puml_files[i], metadata.title)
    /\ status' = [status EXCEPT ![puml_files[i]] = "written"]
    /\ i' = i + 1
    /\ pc' = LoopPc(i')
    /\ UNCHANGED <<dir, imgDir, images, index, puml_files, puml_content,
                   metadata, call, renderLog, rendered, raised, summary>>

\* Lines 343 and 386: mkdir or write_text raises in generate_markdown_doc;
\* the directory may have been created before the write failed.
ComposeRaises ==
    /\ pc = "compose"
    /\ mdDir' \in {mdDir, TRUE}
    /\ Caught("compose_failed")
    /\ UNCHANGED <<dir, imgDir, images, pages, index, puml_files,
                   puml_content, metadata, generated_docs, call, renderLog,
                   rendered, raised, summary>>

\* Lines 527 and 463-464: generate_index does not create its directory;
\* write_text raises FileNotFoundError when OUTPUT_MD_DIR is missing.
GenerateIndexNoDir ==
    /\ pc = "index"
    /\ ~mdDir
    /\ raised' = "index_no_directory"
    /\ pc' = "raised"
    /\ UNCHANGED <<dir, imgDir, mdDir, images, pages, index, puml_files, i,
                   puml_content, metadata, generated_docs, call, renderLog,
                   status, rendered, summary>>

\* Lines 527 and 464: the write itself fails in an existing directory.
GenerateIndexRaises ==
    /\ pc = "index"
    /\ mdDir
    /\ raised' = "index_write"
    /\ pc' = "raised"
    /\ UNCHANGED <<dir, imgDir, mdDir, images, pages, index, puml_files, i,
                   puml_content, metadata, generated_docs, call, renderLog,
                   status, rendered, summary>>

\* Lines 527 and 402-466.
GenerateIndex ==
    /\ pc = "index"
    /\ mdDir
    /\ index' = generate_index(generated_docs)
    /\ pc' = "summary"
    /\ UNCHANGED <<dir, imgDir, mdDir, images, pages, puml_files, i,
                   puml_content, metadata, generated_docs, call, renderLog,
                   status, rendered, raised, summary>>

\* Lines 531-536.
Summary ==
    /\ pc = "summary"
    /\ summary' = <<Len(generated_docs)>>
    /\ pc' = "done"
    /\ UNCHANGED <<dir, imgDir, mdDir, images, pages, index, puml_files, i,
                   puml_content, metadata, generated_docs, call, renderLog,
                   status, rendered, raised>>

Next ==
    \/ Discover
    \/ ReadSource
    \/ ReadSourceRaises
    \/ RenderMkdirRaises
    \/ RenderLaunchRaises
    \/ Render
    \/ Compose
    \/ ComposeRaises
    \/ GenerateIndexNoDir
    \/ GenerateIndexRaises
    \/ GenerateIndex
    \/ Summary

Spec == Init /\ [][Next]_vars

(* ------------------------------- claims ------------------------------- *)

Terminated == pc \in {"done", "raised", "returned_early"}

Range(seq) == {seq[k] : k \in 1..Len(seq)}

Failed(n) == status[n] \in {"render_failed", "compose_failed"}

\* C1: in a run with at least one discovered source, once every source has
\* been attempted the index page is written, whatever the per-diagram
\* outcomes, also when every diagram failed and OUTPUT_MD_DIR did not exist
\* at the start.  Stated for the runs in which the write of README.md does
\* not itself meet an I/O fault.
C1_IndexWrittenAfterAllSources ==
    (/\ Terminated
     /\ puml_files # <<>>
     /\ renderLog = puml_files
     /\ raised # "index_write")
        => index # NoFile

\* C2: main() never raises past its own boundary: no exception leaves it,
\* whatever the outcomes of read, render, page write and index write.
C2_MainNeverRaises == pc # "raised" /\ raised = "none"

Ascending(seq) ==
    \A a, b \in 1..Len(seq) : a < b => SortKey(seq[a]) < SortKey(seq[b])

\* C3: a failure of the render step or of the page-compose step never
\* aborts the batch: the renders attempted so far are the first sources of
\* the sorted list, each once and in that order; after a failure the loop
\* stands at the next source; and once the loop is over every discovered
\* source has had its render attempted exactly once.  Only an exception of
\* read_text, which is neither step, ends the loop early.
C3_RenderOncePerSourceInOrder ==
    /\ pc # "start" => Range(puml_files) = dir /\ Ascending(puml_files)
    /\ Len(renderLog) <= Len(puml_files)
    /\ renderLog = SubSeq(puml_files, 1, Len(renderLog))
    /\ pc \in {"read", "render"} =>
            i = Len(renderLog) + 1 /\ i <= Len(puml_files)
    /\ pc = "compose" => i = Len(renderLog)
    /\ pc \in {"index", "summary", "done"} => renderLog = puml_files
    /\ pc = "raised" /\ raised # "read_text" => renderLog = puml_files

\* C3 witness: a finished run in which the first source failed in render,
\* a later one failed in compose, and every source was rendered.
C3_Witness ==
    /\ pc = "done"
    /\ Len(puml_files) >= 2
    /\ status[puml_files[1]] = "render_failed"
    /\ status[puml_files[2]] = "compose_failed"
    /\ renderLog = puml_files

\* The sources processed so far whose page was written, in processing order.
WrittenSoFar == SelectSeq(puml_files, LAMBDA n : status[n] = "written")

PageOf(n) == CHOOSE p \in pages : p.name = n

\* C4: at every point of a run generated_docs holds exactly the
\* (name, title) pairs of the sources processed so far whose render
\* succeeded and whose page was written, each once and in processing order;
\* a page is written for a name only after that name's render succeeded in
\* the same run; the count of the summary is the length of the list.
C4_GeneratedDocsExact ==
    /\ Len(generated_docs) = Len(WrittenSoFar)
    /\ \A k \in 1..Len(generated_docs) :
            /\ \E p \in pages : p.name = WrittenSoFar[k]
            /\ generated_docs[k] =
                    <<WrittenSoFar[k], PageOf(WrittenSoFar[k]).title>>
    /\ \A p \in pages :
            /\ status[p.name] = "written"
            /\ p.name \in rendered
            /\ p.name \in Range(renderLog)
    /\ \A n \in dir : status[n] = "written" => n \in rendered
    /\ summary # <<>> => pc = "done" /\ summary = <<Len(generated_docs)>>
    /\ pc = "done" => summary = <<Cardinality({p.name : p \in pages})>>

\* C4 witness: a finished run of two sources, the first skipped and the
\* second written, whose summary reports one diagram.
C4_Witness ==
    /\ pc = "done"
    /\ Len(puml_files) = 2
    /\ Failed(puml_files[1])
    /\ generated_docs = <<<<puml_files[2], metadata.title>>>>
    /\ summary = <<1>>

\* C5: generate_png_from_puml returns the PNG path iff the renderer exited
\* with code zero and <stem>.png exists in the output directory after the
\* call; a nonzero exit gives the conversion-failed error carrying stderr,
\* whether or not the file exists; a zero exit with the file absent gives
\* the expected-file-not-created error.  (When the renderer could not be
\* started there is no exit code, and the call fails with the OS error.)
C5_RenderOutcome ==
    call.name # <<>> =>
        /\ call.png_exists = (call.name \in images)
        /\ (call.outcome.kind = "ok") =
                (/\ call.proc # <<>>
                 /\ call.proc[1].returncode = 0
                 /\ call.png_exists)
        /\ (call.outcome.kind = "ok") = (call.name \in rendered)
        /\ call.proc # <<>> /\ call.proc[1].returncode # 0 =>
                /\ call.outcome.kind = "RuntimeError"
                /\ call.outcome.msg =
                        <<"PlantUML conversion failed: ", call.proc[1].stderr>>
        /\ call.proc # <<>> /\ call.proc[1].returncode = 0 /\ ~call.png_exists =>
                /\ call.outcome.kind = "FileNotFoundError"
                /\ call.outcome.msg =
                        <<"Expected PNG file not created: ", call.name>>

\* C5 witness: the renderer exited nonzero without leaving the file, and
\* the call failed with the conversion error carrying its stderr.
C5_Witness ==
    /\ call.name # <<>>
    /\ call.proc # <<>>
    /\ call.proc[1].returncode # 0
    /\ call.proc[1].stderr # ""
    /\ ~call.png_exists
    /\ call.outcome.kind = "RuntimeError"

HasKeyword(n) ==
    \/ Contains(n, "architecture")
    \/ Contains(n, "sequence")
    \/ Contains(n, "flow")
    \/ Contains(n, "class")

\* C6 as stated: the related links of every page are the three architecture
\* links when the name contains "architecture", the two flow links when it
\* contains "sequence" or "flow" but not "architecture", the two class
\* links when it contains "class", and none when it contains no keyword.
C6_RelatedLinksAsStated ==
    \A p \in pages :
        /\ Contains(p.name, "architecture") => p.related = ArchitectureLinks
        /\ (Contains(p.name, "sequence") \/ Contains(p.name, "flow"))
             /\ ~Contains(p.name, "architecture") => p.related = FlowLinks
        /\ Contains(p.name, "class") => p.related = ClassLinks
        /\ ~HasKeyword(p.name) => p.related = <<>>

\* C6 amended: as stated, but the two class links are written when the
\* name contains "class" and none of "architecture", "sequence", "flow".
C6_RelatedLinksByPrecedence ==
    \A p \in pages :
        /\ Contains(p.name, "architecture") => p.related = ArchitectureLinks
        /\ (Contains(p.name, "sequence") \/ Contains(p.name, "flow"))
             /\ ~Contains(p.name, "architecture") => p.related = FlowLinks
        /\ Contains(p.name, "class")
             /\ ~Contains(p.name, "architecture")
             /\ ~Contains(p.name, "sequence")
             /\ ~Contains(p.name, "flow") => p.related = ClassLinks
        /\ ~HasKeyword(p.name) => p.related = <<>>

\* C6 witness: the page of a name holding both "class" and "flow" is
\* written with the flow links, beside a page written with the class links.
C6_Witness ==
    /\ \E p \in pages : p.name = ClassFlow /\ p.related = FlowLinks
    /\ \E p \in pages : p.name = ClassDiagram /\ p.related = ClassLinks

IndexTargets == {index.links[k].target : k \in 1..Len(index.links)}

\* C7: a diagram skipped because of a per-diagram error is not in
\* generated_docs, and the index written at the end of the run holds no
\* link to the page of a diagram that failed in that run.
C7_FailedAbsentFromIndex ==
    /\ \A n \in dir :
            Failed(n) => \A k \in 1..Len(generated_docs) : generated_docs[k][1] # n
    /\ index # NoFile => \A n \in dir : Failed(n) => n \notin IndexTargets

\* C8: the text written by generate_index does not depend on the list it is
\* given: whatever generated_docs holds, the index is the same text, and
\* its links are exactly the fixed catalogue of eleven pages, never the
\* names of the list.
C8_IndexIndependentOfList ==
    index # NoFile =>
        /\ index = generate_index(<<>>)
        /\ IndexTargets = DOMAIN DIAGRAM_DESCRIPTIONS
        /\ Len(index.links) = Cardinality(DOMAIN DIAGRAM_DESCRIPTIONS)

\* C8 witness: the index is written after a page was generated for a name
\* outside the catalogue, and does not link it.
C8_Witness ==
    /\ index # NoFile
    /\ \E k \in 1..Len(generated_docs) :
            /\ generated_docs[k][1] \notin DOMAIN DIAGRAM_DESCRIPTIONS
            /\ generated_docs[k][1] \notin IndexTargets

\* C9: for every source processed by main() the resolved title and the
\* resolved description are both non-empty.
C9_MetadataNonEmpty ==
    /\ metadata.title # <<>> /\ metadata.description # <<>>
    /\ \A p \in pages : p.title # <<>> /\ p.description # <<>>

\* A title directive in the text: the keyword, one or more white-space
\* characters, then a character on which the title can start.
HasTitleDirective(text) ==
    \E p, q \in 1..Len(text) :
        /\ text[p] = "title"
        /\ p + 1 < q
        /\ \A j \in (p + 1)..(q - 1) : IsSpace(text[j])
        /\ text[q] # "\n"

\* C10: while a source is being processed, its metadata is the entry of the
\* static table when the name is in the table, whatever its text says;
\* otherwise the title is extract_title_from_puml(text), which is
\* "Untitled Diagram" when the text holds no title directive and the
\* trimmed rest of a line of the text when it does, and the description is
\* "Documentation for <title>." with the same title.
C10_MetadataResolution ==
    pc \in {"render", "compose"} =>
        LET n == puml_files[i]
        IN  /\ n \in DOMAIN DIAGRAM_DESCRIPTIONS =>
                    metadata = DIAGRAM_DESCRIPTIONS[n]
            /\ n \notin DOMAIN DIAGRAM_DESCRIPTIONS =>
                    /\ metadata.title = extract_title_from_puml(puml_content)
                    /\ metadata.description =
                            <<"Documentation for ">> \o metadata.title \o <<".">>
                    /\ ~HasTitleDirective(puml_content) =>
                            metadata.title = <<"Untitled Diagram">>
                    /\ HasTitleDirective(puml_content) =>
                            \E q, e \in 1..Len(puml_content) :
                                /\ q <= e
                                /\ e = Len(puml_content) \/ puml_content[e + 1] = "\n"
                                /\ \A k \in q..e : puml_content[k] # "\n"
                                /\ metadata.title =
                                        Strip(SubSeq(puml_content, q, e))

\* C10 witness: a source named in the table whose own text declares
\* another title is resolved to the entry of the table.
C10_Witness ==
    /\ pc = "render"
    /\ puml_files[i] = BackendArchitecture
    /\ extract_title_from_puml(puml_content) = <<"x">>
    /\ metadata = DIAGRAM_DESCRIPTIONS[BackendArchitecture]

\* C11: when no source file is discovered, main() returns early and leaves
\* the filesystem unchanged: every step of such a run keeps both output
\* directories, the images, the pages and the index as they were, invokes
\* no render, and ends main() by the early return, with no exception and
\* no summary.
C11_EarlyReturnLeavesFilesystem ==
    [][dir = {} =>
        /\ UNCHANGED <<imgDir, mdDir, images, pages, index, renderLog>>
        /\ pc' = "returned_early"
        /\ raised' = "none"
        /\ summary' = <<>>]_vars

\* C11 witness: a run over an empty directory has returned early with
\* neither output directory present and nothing written.
C11_Witness ==
    /\ pc = "returned_early"
    /\ dir = {}
    /\ puml_files = <<>>
    /\ ~imgDir
    /\ ~mdDir
    /\ pages = {}
    /\ index = NoFile
    /\ renderLog = <<>>

====
